---- MODULE Spec2Model ----
(***************************************************************************)
(* Session-scoped OAuth token lifecycle and tool invocation of the Gmail   *)
(* and Calendar chat agents (mcp-agents/gmail_chat_uagent and              *)
(* mcp-agents/calendar_chat_uagent).                                       *)
(*                                                                         *)
(* One handler invocation (chat message or /oauth/callback POST) is run by *)
(* a handler slot.  The code between two suspension points of a handler    *)
(* runs without interleaving: the variable "running" names the slot that   *)
(* is inside such a segment.  A handler gives up control only where the    *)
(* code really suspends: asyncio.sleep between the two tool attempts, the  *)
(* HTTP stream of the OpenAI Responses call, and ctx.send.  The in-process *)
(* FastMCP call of a synchronous tool function does not suspend.           *)
(***************************************************************************)
EXTENDS Integers, Sequences, FiniteSets, TLC

\* ---------------------------------------------------------------- bounds
\* Environment events of one behaviour: handler invocations, raising FastMCP
\* calls and restarts.  A behaviour either runs its handlers one after the
\* other (MaxEventsSeq events) or lets two of them overlap (MaxEventsConc).
MaxEventsSeq == 5
MaxEventsConc == 3
MaxToolCalls == 1    \* tool_call events the model emits in one chat invocation

\* ------------------------------------------------------- program constants
MAX_HISTORY == 1     \* MAX_GMAIL_CHAT_HISTORY / MAX_CAL_CHAT_HISTORY set to 1
Attempts == 2        \* for attempt in range(2)
HopLimit == 10       \* for hop in range(10)

SessionIds == {"s1", "s2"}
Slots == {1, 2}
Agents == {"gmail", "calendar"}

\* ------------------------------------------------------------- file system
NoPath == <<>>
TOKENS_PATH == <<"oauth_tokens">>
SessionPath(s) == <<"oauth_tokens", s>>
UuidPath == <<"oauth_tokens", "uuid4">>
Paths == {TOKENS_PATH, UuidPath} \cup {SessionPath(s) : s \in SessionIds}

\* Token material is identified by the session whose authorization code was
\* exchanged for it, and by whether its access token has been refreshed.
NoToken == "none"
\* creds.refresh(GoogleRequest()): the token material with a new access token
Refreshed(t) == CASE t = "s1" -> "s1+" [] t = "s2" -> "s2+" [] OTHER -> t
Tokens == SessionIds \cup {Refreshed(s) : s \in SessionIds}
Owner(t) == CASE t = "s1+" -> "s1" [] t = "s2+" -> "s2" [] OTHER -> t

\* ------------------------------------------------------------ chat inputs
NoText == ""
Texts == {"help", "4/good", "4/bad"}
Codes == {"4/good", "4/bad"}

\* str.startswith("4/")
StartsWith4(t) == t \in {"4/good", "4/bad"}
\* the provider accepts the code at the token endpoint
ProviderAccepts(c) == c = "4/good"

\* ---------------------------------------------------------- session record
\* {"messages": []}
Fresh ==
  [exists |-> TRUE, hasmsgs |-> TRUE, messages |-> <<>>, sender |-> FALSE,
   authenticated |-> FALSE, awaiting |-> FALSE, link_sent |-> FALSE,
   tokens_path |-> NoPath, token_json |-> NoToken]
\* {}
EmptyRec == [Fresh EXCEPT !.hasmsgs = FALSE]
\* key not in the sessions dict
Absent == [EmptyRec EXCEPT !.exists = FALSE]

\* sessions.get(sid, default)
SessionsGet(sessions, sid, default) ==
  IF sessions[sid].exists THEN sessions[sid] ELSE default

\* session_data["messages"][-MAX_HISTORY * 2:] when longer than that
Trim(msgs) ==
  IF Len(msgs) > MAX_HISTORY * 2
    THEN SubSeq(msgs, Len(msgs) - MAX_HISTORY * 2 + 1, Len(msgs))
    ELSE msgs

\* ------------------------------------------------------------ tool results
\* The JSON payload a tool returns, and the failure payload of the wrapper.
Payload(success, authenticated, err, url, token) ==
  [success |-> success, authenticated |-> authenticated, err |-> err,
   url |-> url, token |-> token]
NoOut == Payload(FALSE, FALSE, "unset", "", NoToken)
\* json.dumps({"success": False, "error": str(e)})
FailurePayload(msg) == Payload(FALSE, FALSE, msg, "", NoToken)
\* str(e) of an exception the FastMCP call raises: some exceptions carry no
\* message.
ExcMessages == {"", "tool error"}

\* Shapes in which FastMCP hands a result back.
Shapes == {"tuple", "text_obj", "content_list", "dict", "str"}
Wrap(shape, payload) ==
  CASE shape = "tuple" -> [shape |-> "tuple", first |-> [shape |-> "content_list", text |-> payload]]
    [] shape = "text_obj" -> [shape |-> "text_obj", text |-> payload]
    [] shape = "content_list" -> [shape |-> "content_list", text |-> payload]
    [] shape = "dict" -> [shape |-> "dict", value |-> payload]
    [] OTHER -> [shape |-> "str", value |-> payload]

RECURSIVE _unwrap(_)
_unwrap(result) ==
  CASE result.shape = "tuple" -> _unwrap(result.first)
    [] result.shape = "text_obj" -> result.text
    [] result.shape = "content_list" -> result.text
    [] OTHER -> result.value

\* ------------------------------------------------------------------- state
VARIABLES
  agent,      \* which of the two agents this process is
  storage,    \* ctx.storage[SESSIONS_KEY]: session id -> session record
  auth,       \* the shared GmailAuth / CalendarAuth instance
  files,      \* token files on disk: path -> token material or NoToken
  procs,      \* handler slots: local variables and position of each handler
  running,    \* slot inside an uninterrupted segment, 0 when none
  nEvents,    \* environment events so far
  profile,    \* the slots in use and the event budget of this behaviour
  lastDone,   \* the handler invocation the last step finished, if any
  lastCall,   \* the remote tool call made by the last step, if any
  \* GitHub MCP agent (Github MCP Agent/agent.py), a separate process
  user_sessions,    \* session id -> session record
  session_clients,  \* session id -> access token of the cached MCP client
  polling,          \* sessions with a device-flow polling task running
  now,              \* time.time(), in units of TimeUnit seconds
  lapsed,           \* per session, the token of the record last deleted as expired
  lastMsg           \* the chat message the last step handled, if any

ghvars == <<user_sessions, session_clients, polling, now, lapsed, lastMsg>>

vars == <<agent, storage, auth, files, procs, running, nEvents, profile,
          lastDone, lastCall, ghvars>>

Idle ==
  [kind |-> "idle", pc |-> "idle", sid |-> "",
   sessions |-> [s \in SessionIds |-> Absent],
   data |-> Absent, inbound |-> NoText, code |-> "",
   ctx |-> "unset", own |-> [tokens_path |-> NoPath, token_json |-> NoToken],
   fn |-> "", k |-> "", tpath |-> NoPath, temp |-> FALSE, out |-> NoOut,
   sent |-> <<>>, calls |-> 0, reply |-> "", after |-> "", path |-> "",
   stale |-> FALSE, tries |-> 0, fails |-> 0, trail |-> <<>>]

\* lastDone: what the invocation was (kind, sid, inbound text, the record it
\* loaded), the way it took (path, stale-flow reset, last tool it called, the
\* tools it called in order) and the replies it sent.
\* start, text: for a chat message handled without a reply, whether it carried
\* a StartSessionContent block, and its text block.
\* get: for a request to the OAuth callback server, the session id bound as
\* state in the link the user followed, the code the provider issued ("" when
\* the user denied) and the HTTP status of the answer.
NoGet == [state |-> "", code |-> "", status |-> 0]
NoDone == [kind |-> "none", sid |-> "", path |-> "", sent |-> <<>>, loaded |-> Absent,
           inbound |-> NoText, fn |-> "", stale |-> FALSE, trail |-> <<>>,
           get |-> NoGet, start |-> FALSE, text |-> NoText]
\* lastCall: the call (slot, sid, fn, attempt), its outcome (raised, result),
\* where the handler goes on with it (via), and the flow object and the
\* handler's authenticated flag at the time of the call.
\* tries and fails count the calls of the invocation of the wrapper so far,
\* and those of them that raised, this call included.
\* refreshed: the call found the access token expired and refreshed it.
NoCall == [slot |-> 0, sid |-> "", fn |-> "", attempt |-> 0, raised |-> FALSE,
           result |-> NoOut, via |-> "", flow |-> "", flagged |-> FALSE,
           tries |-> 0, fails |-> 0, refreshed |-> FALSE]

\* expiring: access tokens expire in the course of the behaviour.
Profiles == {[slots |-> {1}, events |-> MaxEventsSeq, expiring |-> TRUE],
             [slots |-> Slots, events |-> MaxEventsConc, expiring |-> FALSE]}

\* ------------------------------------ Github MCP Agent/agent.py (state)
\* Time is counted in units of ten minutes.
SESSION_TIMEOUT == 3   \* SESSION_TIMEOUT = 30 * 60 seconds
MaxNow == 4            \* the clock stops here

\* The personal access token a user pastes ('ghp_' and more than 20 characters)
\* and the token the device flow issues.
PastedTokens == {"ghp_a"}
DeviceToken == "gho_d"
GhQuery == "show my repositories"
GhTexts == PastedTokens \cup {GhQuery}

\* A user_sessions entry: exists is "session_id in user_sessions";
\* access_token is NoToken when the key is missing; last_activity is what
\* session.get('last_activity', 0) gives; device_code is the device-flow data.
NoSession == [exists |-> FALSE, access_token |-> NoToken, last_activity |-> 0,
              device_code |-> FALSE]
NoMsg == [kind |-> "none", sid |-> "", text |-> "", expired |-> FALSE,
          authenticated |-> FALSE, reply |-> "", used |-> NoToken,
          stored |-> NoToken]

GhInit ==
  /\ user_sessions = [s \in SessionIds |-> NoSession]
  /\ session_clients = [s \in SessionIds |-> NoToken]
  /\ polling = [s \in SessionIds |-> FALSE]
  /\ now = 0
  /\ lapsed = [s \in SessionIds |-> NoToken]
  /\ lastMsg = NoMsg

\* GmailAuth.__init__ / CalendarAuth.__init__
AuthInit == [tokens_path |-> TOKENS_PATH, service |-> NoToken, flow |-> ""]

Init ==
  /\ agent \in Agents
  /\ storage = [s \in SessionIds |-> Absent]
  /\ auth = AuthInit
  /\ files = [p \in Paths |-> NoToken]
  /\ procs = [p \in Slots |-> Idle]
  /\ running = 0
  /\ nEvents = 0
  /\ profile \in Profiles
  /\ lastDone = NoDone
  /\ lastCall = NoCall
  /\ GhInit

\* ------------------------------------------------------ server.py (tools)
\* GmailAuth.get_service / CalendarAuth.service: the cached client if there is
\* one, else a client built from the token file at self.tokens_path; raises
\* when that file does not exist.  expired stands for "creds.expired and
\* creds.refresh_token": the token is refreshed and written back to the file.
get_service(a, f, expired) ==
  IF a.service # NoToken THEN [ok |-> TRUE, auth |-> a, files |-> f]
  ELSE IF f[a.tokens_path] = NoToken THEN [ok |-> FALSE, auth |-> a, files |-> f]
  ELSE LET tok == IF expired THEN Refreshed(f[a.tokens_path]) ELSE f[a.tokens_path]
       IN [ok |-> TRUE, auth |-> [a EXCEPT !.service = tok],
           files |-> [f EXCEPT ![a.tokens_path] = tok]]

\* GmailAuth.get_oauth_url / CalendarAuth.get_oauth_url: a new Flow replaces
\* self._flow; the session id is bound as the state of the URL.
get_oauth_url(a, sid) == [a EXCEPT !.flow = sid]

setup_oauth(a, f, sid) ==
  [auth |-> get_oauth_url(a, sid), files |-> f,
   payload |-> Payload(TRUE, FALSE, "", sid, NoToken)]

\* complete_oauth whose exchange treats a missing flow like a rejected code.
complete_oauth_NoFlowCheck(a, f, code, owner) ==
  IF a.flow = "" \/ ~ProviderAccepts(code)
    THEN [auth |-> a, files |-> f,
          payload |-> Payload(FALSE, FALSE, "invalid_grant", "", NoToken)]
  ELSE [auth |-> a, files |-> [f EXCEPT ![a.tokens_path] = owner],
        payload |-> Payload(TRUE, FALSE, "", "", NoToken)]

\* exchange_code_for_token inside complete_oauth: the token obtained for
\* owner's code is written to self.tokens_path.
complete_oauth(a, f, code, owner) ==
  IF a.flow = ""
    THEN [auth |-> a, files |-> f,
          payload |-> Payload(FALSE, FALSE, "flow not initialised", "", NoToken)]
  ELSE IF ~ProviderAccepts(code)
    THEN [auth |-> a, files |-> f,
          payload |-> Payload(FALSE, FALSE, "invalid_grant", "", NoToken)]
  ELSE [auth |-> a, files |-> [f EXCEPT ![a.tokens_path] = owner],
        payload |-> Payload(TRUE, FALSE, "", "", NoToken)]

\* gmail server.py check_auth_status
check_auth_status_gmail(a, f, expired) ==
  IF f[a.tokens_path] # NoToken
    THEN LET g == get_service(a, f, expired) IN
         [auth |-> g.auth, files |-> g.files,
          payload |-> Payload(g.ok, g.ok, IF g.ok THEN "" ELSE "Not authenticated",
                              "", NoToken)]
    ELSE [auth |-> a, files |-> f, payload |-> Payload(TRUE, FALSE, "", "", NoToken)]

\* calendar server.py check_auth_status
check_auth_status_cal(a, f) ==
  [auth |-> a, files |-> f,
   payload |-> Payload(TRUE, f[a.tokens_path] # NoToken, "", "", NoToken)]

\* list_emails / list_events: a tool that needs the credentials.  The payload
\* carries the token material of the client the call was made with.
list_emails(a, f, expired) ==
  LET g == get_service(a, f, expired) IN
  IF g.ok
    THEN [auth |-> g.auth, files |-> g.files,
          payload |-> Payload(TRUE, FALSE, "", "", g.auth.service)]
    ELSE [auth |-> g.auth, files |-> g.files,
          payload |-> Payload(FALSE, FALSE, "Not authenticated", "", NoToken)]

CredentialTools == {"list_emails"}

\* gmail server.py reset_oauth_tokens: removes the file at the module-level
\* TOKENS_PATH and drops the cached client, if that file exists.
reset_oauth_tokens(a, f) ==
  IF f[TOKENS_PATH] # NoToken
    THEN [auth |-> [a EXCEPT !.service = NoToken],
          files |-> [f EXCEPT ![TOKENS_PATH] = NoToken],
          payload |-> Payload(TRUE, FALSE, "", "", NoToken)]
    ELSE [auth |-> a, files |-> f,
          payload |-> Payload(FALSE, FALSE, "No token file", "", NoToken)]

\* The tools the model can ask for in a tool_call event.
ModelTools(ag) ==
  IF ag = "gmail" THEN {"list_emails", "reset_oauth_tokens"} ELSE {"list_emails"}

\* mcp._mcp_call_tool(fn, args) when it does not raise
CallTool(ag, fn, a, f, sid, code, expired) ==
  CASE fn = "setup_oauth" -> setup_oauth(a, f, sid)
    [] fn = "complete_oauth" -> complete_oauth(a, f, code, sid)
    [] fn = "check_auth_status" ->
         IF ag = "gmail" THEN check_auth_status_gmail(a, f, expired)
                         ELSE check_auth_status_cal(a, f)
    [] fn = "reset_oauth_tokens" -> reset_oauth_tokens(a, f)
    [] OTHER -> list_emails(a, f, expired)

\* ------------------------------------------- _run_gmail_tool / _run_cal_tool
\* CURRENT_SESSION_DATA.get(): the handler's session_data itself, a separate
\* dict, or {}.
SessionCtx(r) ==
  CASE r.ctx = "data" -> [tokens_path |-> r.data.tokens_path, token_json |-> r.data.token_json]
    [] r.ctx = "own" -> r.own
    [] OTHER -> [tokens_path |-> NoPath, token_json |-> NoToken]

\* session_ctx["tokens_path"] = str(tokens_path)
SetCtxPath(r, path) ==
  CASE r.ctx = "data" -> [r EXCEPT !.data.tokens_path = path]
    [] r.ctx = "own" -> [r EXCEPT !.own.tokens_path = path]
    [] OTHER -> r

\* _run_gmail_tool that leaves the token file away when a client is cached.
RunGmailToolPrep_TrustCache(r, a, f) ==
  LET sc == SessionCtx(r)
      mk == sc.token_json # NoToken /\ a.service = NoToken
            /\ (sc.tokens_path = NoPath \/ f[sc.tokens_path] = NoToken)
      tp == IF mk /\ sc.tokens_path = NoPath THEN UuidPath ELSE sc.tokens_path
      f1 == IF mk THEN [f EXCEPT ![tp] = sc.token_json] ELSE f
      r1 == IF mk THEN SetCtxPath(r, tp) ELSE r
      a1 == IF tp # NoPath /\ a.tokens_path # tp
              THEN [a EXCEPT !.tokens_path = tp, !.service = NoToken] ELSE a
  IN [proc |-> [r1 EXCEPT !.tpath = tp, !.temp = mk], auth |-> a1, files |-> f1]

\* _run_gmail_tool up to the retry loop
RunGmailToolPrep(r, a, f) ==
  LET sc == SessionCtx(r)
      mk == sc.token_json # NoToken
            /\ (sc.tokens_path = NoPath \/ f[sc.tokens_path] = NoToken)
      tp == IF mk /\ sc.tokens_path = NoPath THEN UuidPath ELSE sc.tokens_path
      f1 == IF mk THEN [f EXCEPT ![tp] = sc.token_json] ELSE f
      r1 == IF mk THEN SetCtxPath(r, tp) ELSE r
      a1 == IF tp # NoPath /\ a.tokens_path # tp
              THEN [a EXCEPT !.tokens_path = tp, !.service = NoToken] ELSE a
  IN [proc |-> [r1 EXCEPT !.tpath = tp, !.temp = mk], auth |-> a1, files |-> f1]

\* _run_cal_tool up to the retry loop
RunCalToolPrep(r, a, f) ==
  LET sc == SessionCtx(r)
      have == sc.tokens_path # NoPath /\ f[sc.tokens_path] # NoToken
      mk == ~have /\ sc.token_json # NoToken
      tp == IF mk /\ sc.tokens_path = NoPath THEN UuidPath ELSE sc.tokens_path
      f1 == IF mk THEN [f EXCEPT ![tp] = sc.token_json] ELSE f
      r1 == IF mk THEN SetCtxPath(r, tp) ELSE r
      a1 == IF have
              THEN (IF a.tokens_path # tp
                      THEN [a EXCEPT !.tokens_path = tp, !.service = NoToken] ELSE a)
              ELSE (IF mk THEN [a EXCEPT !.tokens_path = tp, !.service = NoToken] ELSE a)
  IN [proc |-> [r1 EXCEPT !.tpath = tp, !.temp = mk], auth |-> a1, files |-> f1]

RunToolPrep(ag, r, a, f) ==
  IF ag = "gmail" THEN RunGmailToolPrep(r, a, f) ELSE RunCalToolPrep(r, a, f)

\* A wrapper that leaves the token file it wrote.
Cleanup_Keep(r, f) == f

\* if temp_created and tokens_path and os.path.exists(tokens_path): os.remove
Cleanup(r, f) ==
  IF r.temp /\ r.tpath # NoPath /\ f[r.tpath] # NoToken
    THEN [f EXCEPT ![r.tpath] = NoToken] ELSE f

\* The handler in slot p calls the tool fn and continues at k with the result.
\* Sets everything but storage, the counters and lastDone.
BeginTool(p, r, a, fn, k) ==
  LET pr == RunToolPrep(agent, r, a, files) IN
  /\ procs' = [procs EXCEPT ![p] = [pr.proc EXCEPT !.fn = fn, !.k = k, !.pc = "call1"]]
  /\ auth' = pr.auth
  /\ files' = pr.files
  /\ running' = p

\* "flow not initialised" in result.get("error", "").lower()
FlowMissing(out) == ~out.success /\ out.err = "flow not initialised"

\* An entry of the trail of a handler: the tool the wrapper was called for and
\* whether its result reports the missing flow.
Called(fn, out) == [fn |-> fn, noflow |-> FlowMissing(out)]

\* "if attempt == 0: await asyncio.sleep(0.5); continue", without the retry.
Retry_Never(attempt) == FALSE

\* The except branch that sleeps and continues after every pass that raised.
Retry_Always(attempt) == TRUE

\* "if attempt == 0: await asyncio.sleep(0.5); continue" in the except branch:
\* a pass that raised is followed by another one unless it was the last.
Retry(attempt) == attempt < Attempts

\* One pass of "for attempt in range(2)": the call, then either the unwrapped
\* result, the sleep before the retry, or the failure payload.
ToolAttempt(p) ==
  LET r == procs[p]
      attempt == IF r.pc = "call1" THEN 1 ELSE Attempts
  IN
  /\ running = p
  /\ r.pc \in {"call1", "call2"}
  /\ \E raise \in BOOLEAN, shape \in Shapes, msg \in ExcMessages, expired \in BOOLEAN :
       /\ raise => nEvents < profile.events /\ shape = "str"
       /\ expired => /\ profile.expiring /\ ~raise
                      /\ CallTool(agent, r.fn, auth, files, r.sid, r.code, TRUE)
                           # CallTool(agent, r.fn, auth, files, r.sid, r.code, FALSE)
       /\ (raise /\ ~Retry(attempt)) \/ msg = ""
       /\ nEvents' = IF raise THEN nEvents + 1 ELSE nEvents
       /\ IF raise
            THEN /\ lastCall' = [slot |-> p, sid |-> r.sid, fn |-> r.fn, attempt |-> attempt,
                                 raised |-> TRUE, result |-> NoOut, via |-> r.k,
                                 flow |-> auth.flow, flagged |-> r.data.authenticated,
                                 tries |-> r.tries + 1, fails |-> r.fails + 1,
                                 refreshed |-> FALSE]
                 /\ auth' = auth
                 /\ IF Retry(attempt)
                      THEN /\ procs' = [procs EXCEPT ![p].pc = "sleep",
                                                     ![p].tries = @ + 1,
                                                     ![p].fails = @ + 1]
                           /\ running' = 0
                           /\ files' = files
                      ELSE /\ procs' = [procs EXCEPT ![p].pc = r.k,
                                                     ![p].out = FailurePayload(msg),
                                                     ![p].tries = 0, ![p].fails = 0,
                                                     ![p].trail = Append(@, Called(r.fn, FailurePayload(msg)))]
                           /\ running' = p
                           /\ files' = Cleanup(r, files)
            ELSE LET c == CallTool(agent, r.fn, auth, files, r.sid, r.code, expired) IN
                 /\ lastCall' = [slot |-> p, sid |-> r.sid, fn |-> r.fn, attempt |-> attempt,
                                 raised |-> FALSE, result |-> c.payload, via |-> r.k,
                                 flow |-> auth.flow, flagged |-> r.data.authenticated,
                                 tries |-> r.tries + 1, fails |-> r.fails,
                                 refreshed |-> expired]
                 /\ auth' = c.auth
                 /\ files' = Cleanup(r, c.files)
                 /\ procs' = [procs EXCEPT ![p].pc = r.k,
                                           ![p].out = _unwrap(Wrap(shape, c.payload)),
                                           ![p].tries = 0, ![p].fails = 0,
                                           ![p].trail = Append(@, Called(r.fn, c.payload))]
                 /\ running' = p
  /\ UNCHANGED <<agent, storage, profile>>
  /\ lastDone' = NoDone
  /\ UNCHANGED ghvars

\* await asyncio.sleep(0.5) is over: second pass of the loop
ToolRetry(p) ==
  /\ running = 0
  /\ procs[p].pc = "sleep"
  /\ procs' = [procs EXCEPT ![p].pc = "call2"]
  /\ running' = p
  /\ UNCHANGED <<agent, storage, auth, files, nEvents, profile>>
  /\ lastDone' = NoDone
  /\ lastCall' = NoCall
  /\ UNCHANGED ghvars

\* ------------------------------------------------------- handler plumbing
\* The handler in slot p returns (or raises): the slot is free again.
Finish(p, path, sent) ==
  /\ procs' = [procs EXCEPT ![p] = Idle]
  /\ running' = 0
  /\ lastDone' = [kind |-> procs[p].kind, sid |-> procs[p].sid, path |-> path,
                  sent |-> sent,
                  loaded |-> procs[p].sessions[procs[p].sid],
                  inbound |-> procs[p].inbound, fn |-> procs[p].fn,
                  stale |-> procs[p].stale, trail |-> procs[p].trail,
                  get |-> NoGet, start |-> FALSE, text |-> NoText]

\* sessions[session_id] = session_data; ctx.storage.set(SESSIONS_KEY, ...)
Store(r) == [r.sessions EXCEPT ![r.sid] = r.data]

\* await ctx.send(sender, reply) is reached: the handler suspends, and goes on
\* at "after" ("store" or "return") when the send is over.
Send(p, r, reply, after, path) ==
  /\ procs' = [procs EXCEPT ![p] = [r EXCEPT !.pc = "sending", !.reply = reply,
                                             !.after = after, !.path = path]]
  /\ running' = 0

\* A new invocation takes the lowest free slot (the slots are interchangeable).
CanStart(p) ==
  /\ running = 0
  /\ procs[p].kind = "idle"
  /\ \A q \in Slots : q < p => procs[q].kind # "idle"
  /\ nEvents < profile.events
  /\ p \in profile.slots

\* One chat handler at a time per session.
NoChatFor(s) == \A q \in Slots : procs[q].kind = "chat" => procs[q].sid # s

\* ------------------------------------ gmail_chat_proto.handle_chat_message
\* From the load of the sessions dict to the status check (lines 347-412).
\* "Shortcut - start session reset": session_data.clear();
\* session_data.update({"messages": []}); inbound_texts = []
StartSession_Keep(start, d) == d
StartSession(start, d) == IF start THEN Fresh ELSE d
inbound_texts(start, text) == IF start THEN NoText ELSE text

handle_chat_message(p, s, text, start) ==
  LET loaded == SessionsGet(storage, s, Fresh)
      d1 == [loaded EXCEPT !.sender = TRUE]
      d2 == StartSession(start, d1)
      inbound == inbound_texts(start, text)
      stale == d2.awaiting /\ auth.flow = ""
      d3 == IF stale THEN [d2 EXCEPT !.awaiting = FALSE, !.link_sent = FALSE] ELSE d2
      r == [Idle EXCEPT !.kind = "chat", !.sid = s, !.sessions = storage,
                        !.inbound = inbound, !.ctx = "data"]
  IN
  /\ agent = "gmail"
  /\ CanStart(p) /\ NoChatFor(s)
  /\ nEvents' = nEvents + 1
  /\ IF inbound = NoText /\ ~d2.awaiting
       THEN /\ storage' = [storage EXCEPT ![s] = d2]
            /\ procs' = procs /\ running' = 0
            /\ lastDone' = [NoDone EXCEPT !.kind = "chat", !.sid = s, !.path = "noop",
                                           !.loaded = storage[s],
                                           !.start = start, !.text = text]
       ELSE /\ storage' = storage
            /\ procs' = [procs EXCEPT ![p] = [r EXCEPT !.data = d3, !.stale = stale,
                                                      !.pc = "validate"]]
            /\ running' = p
            /\ lastDone' = NoDone
  /\ UNCHANGED <<agent, auth, files, profile>>
  /\ lastCall' = NoCall
  /\ UNCHANGED ghvars

\* ------------------------------------------- calendar_chat_proto._handle
\* From the load of the sessions dict to the status check (lines 250-277).
_handle(p, s, text, start) ==
  LET loaded == SessionsGet(storage, s, Fresh)
      d1 == [loaded EXCEPT !.sender = TRUE]
      d2 == StartSession(start, d1)
      inbound == inbound_texts(start, text)
      r == [Idle EXCEPT !.kind = "chat", !.sid = s, !.sessions = storage,
                        !.inbound = inbound, !.ctx = "data"]
  IN
  /\ agent = "calendar"
  /\ CanStart(p) /\ NoChatFor(s)
  /\ nEvents' = nEvents + 1
  /\ IF inbound = NoText /\ ~d2.awaiting
       THEN /\ storage' = [storage EXCEPT ![s] = d2]
            /\ procs' = procs /\ running' = 0
            /\ lastDone' = [NoDone EXCEPT !.kind = "chat", !.sid = s, !.path = "noop",
                                           !.loaded = storage[s],
                                           !.start = start, !.text = text]
       ELSE /\ storage' = storage
            /\ procs' = [procs EXCEPT ![p] = [r EXCEPT !.data = d2, !.pc = "validate"]]
            /\ running' = p
            /\ lastDone' = NoDone
  /\ UNCHANGED <<agent, auth, files, profile>>
  /\ lastCall' = NoCall
  /\ UNCHANGED ghvars

\* "if session_data.get(...authenticated)": point the shared auth object at the
\* session's token file and call check_auth_status (gmail 414-421, calendar
\* 284-298, where the tool runs with a separate token_ctx dict).
ValidateAuth(p) ==
  LET r == procs[p]
      d == r.data
      a1 == IF d.tokens_path # NoPath
              THEN [auth EXCEPT !.tokens_path = d.tokens_path, !.service = NoToken]
              ELSE auth
      has_ctx == d.token_json # NoToken \/ d.tokens_path # NoPath
      rc == IF agent = "calendar" /\ has_ctx
              THEN [r EXCEPT !.ctx = "own",
                             !.own = [tokens_path |-> d.tokens_path,
                                      token_json |-> d.token_json]]
              ELSE r
  IN
  /\ running = p
  /\ r.pc = "validate"
  /\ IF d.authenticated
       THEN BeginTool(p, rc, a1, "check_auth_status", "status")
       ELSE /\ procs' = [procs EXCEPT ![p].pc = "authflow"]
            /\ UNCHANGED <<auth, files, running>>
  /\ UNCHANGED <<agent, storage, nEvents, profile>>
  /\ lastDone' = NoDone
  /\ lastCall' = NoCall
  /\ UNCHANGED ghvars

\* status = json.loads(status_raw); clear the flag unless it says
\* authenticated (gmail 422-427, calendar 299-307).
AfterStatus(p) ==
  LET r == procs[p]
      d == IF r.out.authenticated THEN r.data
           ELSE [r.data EXCEPT !.authenticated = FALSE]
      c == IF agent = "calendar" /\ r.ctx = "own" THEN "empty" ELSE r.ctx
  IN
  /\ running = p
  /\ r.pc = "status"
  /\ procs' = [procs EXCEPT ![p] = [r EXCEPT !.data = d, !.ctx = c, !.pc = "authflow"]]
  /\ UNCHANGED <<agent, storage, auth, files, running, nEvents, profile>>
  /\ lastDone' = NoDone
  /\ lastCall' = NoCall
  /\ UNCHANGED ghvars

\* GmailBranch without the return that ends the reminder branch.
GmailBranch_NoReturn(d, inbound) ==
  IF ~d.authenticated
    THEN IF d.link_sent /\ ~d.awaiting THEN "dup_guard"
         ELSE IF d.awaiting /\ inbound # NoText /\ StartsWith4(inbound) THEN "code"
         ELSE IF d.awaiting THEN "openai"
         ELSE "setup"
    ELSE "openai"

\* Which way the Gmail handler goes after the status check (the if-chain of
\* lines 438-516): every way but "openai" returns before the OpenAI call.
GmailBranch(d, inbound) ==
  IF ~d.authenticated
    THEN IF d.link_sent /\ ~d.awaiting THEN "dup_guard"
         ELSE IF d.awaiting /\ inbound # NoText /\ StartsWith4(inbound) THEN "code"
         ELSE IF d.awaiting THEN "reminder"
         ELSE "setup"
    ELSE "openai"

\* The authentication workflow of the Gmail handler and the hand-over to the
\* OpenAI call (lines 438-575).
GmailAuthFlow(p) ==
  LET r == procs[p]
      d == r.data
      tp == SessionPath(r.sid)
      br == GmailBranch(d, r.inbound)
      msgs == IF r.inbound # NoText
                THEN Append(d.messages, [source |-> "human", content |-> r.inbound])
                ELSE d.messages
  IN
  /\ agent = "gmail"
  /\ running = p
  /\ r.pc = "authflow"
  /\ CASE br = "dup_guard" ->
            /\ Finish(p, "dup_guard", r.sent)
            /\ UNCHANGED <<auth, files>>
       [] br = "code" ->
            /\ BeginTool(p, [r EXCEPT !.data.tokens_path = tp, !.code = r.inbound],
                         [auth EXCEPT !.tokens_path = tp, !.service = NoToken],
                         "complete_oauth", "completed")
            /\ lastDone' = NoDone
       [] br = "reminder" ->
            /\ Send(p, r, "reminder", "store", "reminder")
            /\ UNCHANGED <<auth, files>>
            /\ lastDone' = NoDone
       [] br = "setup" ->
            /\ BeginTool(p, r, auth, "setup_oauth", "setup")
            /\ lastDone' = NoDone
       [] OTHER ->
            /\ procs' = [procs EXCEPT ![p] =
                           [r EXCEPT !.data.messages = Trim(msgs),
                                     !.data.hasmsgs = TRUE, !.pc = "openai"]]
            /\ running' = 0
            /\ UNCHANGED <<auth, files>>
            /\ lastDone' = NoDone
  /\ UNCHANGED <<agent, storage, nEvents, profile>>
  /\ lastCall' = NoCall
  /\ UNCHANGED ghvars

\* The failure branch that leaves the session record as it is.
CodeFailed_Keep(d) == d

\* The failure branch that falls into the bookkeeping of the success branch.
CodeFailed_Authenticates(d) == [d EXCEPT !.awaiting = FALSE, !.authenticated = TRUE]

\* "session_data.pop("awaiting_auth_code", None)  # reset so a new auth flow can
\* start": the session record after a failed exchange (line 496).
CodeFailed(d) == [d EXCEPT !.awaiting = FALSE]

\* After complete_oauth in the Gmail chat handler (lines 468-499).
GmailCompleted(p) ==
  LET r == procs[p]
      tp == SessionPath(r.sid)
      readable == files[tp] # NoToken
      ok == [r.data EXCEPT !.authenticated = TRUE, !.awaiting = FALSE,
                           !.link_sent = FALSE,
                           !.token_json = IF readable THEN files[tp] ELSE @]
      ko == CodeFailed(r.data)
  IN
  /\ agent = "gmail"
  /\ running = p
  /\ r.pc = "completed"
  /\ IF r.out.success
       THEN /\ Send(p, [r EXCEPT !.data = ok], "auth_ok", "store", "code_ok")
            /\ files' = IF readable THEN [files EXCEPT ![tp] = NoToken] ELSE files
       ELSE /\ Send(p, [r EXCEPT !.data = ko], "auth_failed", "store", "code_failed")
            /\ files' = files
  /\ UNCHANGED <<agent, storage, auth, nEvents, profile>>
  /\ lastDone' = NoDone
  /\ lastCall' = NoCall
  /\ UNCHANGED ghvars

\* CalBranch without the reminder branch: a message of a waiting session
\* starts OAuth again.
CalBranch_NoReminder(d, inbound) ==
  IF ~d.authenticated
    THEN IF d.link_sent /\ ~d.awaiting THEN "dup_guard" ELSE "setup"
    ELSE "openai"

\* Which way the Calendar handler goes after the status check (the if-chain
\* of lines 318-332): every way but "openai" returns before the OpenAI call.
CalBranch(d, inbound) ==
  IF ~d.authenticated
    THEN IF d.link_sent /\ ~d.awaiting THEN "dup_guard"
         ELSE IF d.awaiting THEN (IF inbound # NoText THEN "reminder" ELSE "waiting")
         ELSE "setup"
    ELSE "openai"

\* The authentication workflow of the Calendar handler and the hand-over to
\* the OpenAI call (lines 318-394).  Assistant texts are taken not to look
\* like an OAuth prompt, so the filter of lines 359-371 keeps the history.
CalAuthFlow(p) ==
  LET r == procs[p]
      d == r.data
      br == CalBranch(d, r.inbound)
      msgs == IF r.inbound # NoText
                THEN Append(d.messages, [source |-> "human", content |-> r.inbound])
                ELSE d.messages
  IN
  /\ agent = "calendar"
  /\ running = p
  /\ r.pc = "authflow"
  /\ CASE br = "dup_guard" ->
            /\ Finish(p, "dup_guard", r.sent)
            /\ UNCHANGED <<auth, files, storage>>
       [] br = "reminder" ->
            /\ Send(p, r, "reminder", "store", "reminder")
            /\ UNCHANGED <<auth, files, storage>>
            /\ lastDone' = NoDone
       [] br = "waiting" ->
            /\ storage' = Store(r)
            /\ Finish(p, "waiting", r.sent)
            /\ UNCHANGED <<auth, files>>
       [] br = "setup" ->
            /\ BeginTool(p, r, auth, "setup_oauth", "setup")
            /\ UNCHANGED storage
            /\ lastDone' = NoDone
       [] OTHER ->
            IF ~d.hasmsgs
              \* data["messages"] raises KeyError
              THEN /\ Finish(p, "crash", r.sent)
                   /\ UNCHANGED <<auth, files, storage>>
              ELSE /\ procs' = [procs EXCEPT ![p] =
                                  [r EXCEPT !.data.messages = Trim(msgs), !.pc = "openai"]]
                   /\ running' = 0
                   /\ UNCHANGED <<auth, files, storage>>
                   /\ lastDone' = NoDone
  /\ UNCHANGED <<agent, nEvents, profile>>
  /\ lastCall' = NoCall
  /\ UNCHANGED ghvars

\* After setup_oauth in a chat handler (gmail 519-554, calendar 334-355).
AfterSetup(p) ==
  LET r == procs[p]
      d == [r.data EXCEPT !.awaiting = TRUE, !.link_sent = TRUE]
  IN
  /\ running = p
  /\ r.pc = "setup"
  /\ IF r.out.success
       THEN Send(p, [r EXCEPT !.data = d], "link", "store", "link")
       ELSE Send(p, r, "setup_failed", "return", "setup_failed")
  /\ UNCHANGED <<agent, storage, auth, files, nEvents, profile>>
  /\ lastDone' = NoDone
  /\ lastCall' = NoCall
  /\ UNCHANGED ghvars

\* ctx.send is over; the handler persists the session where the code does so
\* and returns.
AfterSend(p) ==
  LET r == procs[p] IN
  /\ running = 0
  /\ r.pc = "sending"
  /\ storage' = IF r.after = "store" THEN Store(r) ELSE storage
  /\ Finish(p, r.path, Append(r.sent, r.reply))
  /\ UNCHANGED <<agent, auth, files, nEvents, profile>>
  /\ lastCall' = NoCall
  /\ UNCHANGED ghvars

\* ------------------------------------------------- _call_openai_responses
\* One hop of the Responses stream: the final text, a tool_call event, or an
\* HTTP error, which the handler does not catch.
OpenAIEvent(p) ==
  LET r == procs[p]
      answered == [r EXCEPT !.data.messages =
                     Append(@, [source |-> "assistant", content |-> "answer"])]
  IN
  /\ running = 0
  /\ r.pc = "openai"
  /\ \E ev \in {"final", "tool_call", "error"}, fn \in ModelTools(agent) :
       /\ ev # "tool_call" => fn = "list_emails"
       /\ CASE ev = "final" ->
                 /\ Send(p, answered, "answer", "store", "answer")
                 /\ UNCHANGED <<auth, files>>
                 /\ lastDone' = NoDone
            [] ev = "tool_call" ->
                 /\ r.calls < MaxToolCalls
                 /\ BeginTool(p, [r EXCEPT !.calls = @ + 1], auth, fn, "tool_output")
                 /\ lastDone' = NoDone
            [] OTHER ->
                 /\ Finish(p, "crash", r.sent)
                 /\ UNCHANGED <<auth, files>>
  /\ UNCHANGED <<agent, storage, nEvents, profile>>
  /\ lastCall' = NoCall
  /\ UNCHANGED ghvars

\* The tool output goes into the follow-up request of the next hop; after the
\* last hop Gmail raises RuntimeError and Calendar answers "(no response)".
ToolOutput(p) ==
  LET r == procs[p]
      none == [r EXCEPT !.data.messages =
                 Append(@, [source |-> "assistant", content |-> "(no response)"])]
  IN
  /\ running = p
  /\ r.pc = "tool_output"
  /\ IF r.calls < HopLimit
       THEN /\ procs' = [procs EXCEPT ![p].pc = "openai"]
            /\ running' = 0
            /\ lastDone' = NoDone
       ELSE IF agent = "gmail"
              THEN Finish(p, "crash", r.sent)
              ELSE /\ Send(p, none, "(no response)", "store", "answer")
                   /\ lastDone' = NoDone
  /\ UNCHANGED <<agent, storage, auth, files, nEvents, profile>>
  /\ lastCall' = NoCall
  /\ UNCHANGED ghvars

\* ------------------------------------------------------- oauth_server.py
\* Session ids and authorization codes as character sequences, and back ("?"
\* for a sequence that is none of them).
Chars(x) ==
  CASE x = "s1" -> <<"s", "1">>
    [] x = "s2" -> <<"s", "2">>
    [] x = "4/good" -> <<"4", "/", "g">>
    [] x = "4/bad" -> <<"4", "/", "b">>
    [] OTHER -> <<>>
Text(cs) ==
  IF cs = <<>> THEN ""
  ELSE IF \E x \in SessionIds \cup Codes : Chars(x) = cs
    THEN CHOOSE x \in SessionIds \cup Codes : Chars(x) = cs
  ELSE "?"

\* urllib.parse.quote_plus, as urlencode applies it to a parameter value
RECURSIVE Quote(_)
Quote(cs) ==
  IF cs = <<>> THEN <<>>
  ELSE (CASE Head(cs) = "/" -> <<"%", "2", "F">>
          [] Head(cs) = "&" -> <<"%", "2", "6">>
          [] Head(cs) = "=" -> <<"%", "3", "D">>
          [] Head(cs) = "%" -> <<"%", "2", "5">>
          [] OTHER -> <<Head(cs)>>) \o Quote(Tail(cs))

\* A query string handed on without decoding the percent escapes.
Unquote_Raw(cs) == cs

\* urllib.parse.unquote, as parse_qs applies it to a parameter value
RECURSIVE Unquote(_)
Unquote(cs) ==
  IF cs = <<>> THEN <<>>
  ELSE IF Head(cs) = "%" /\ Len(cs) >= 3
    THEN (CASE <<cs[2], cs[3]>> = <<"2", "F">> -> <<"/">>
            [] <<cs[2], cs[3]>> = <<"2", "6">> -> <<"&">>
            [] <<cs[2], cs[3]>> = <<"3", "D">> -> <<"=">>
            [] <<cs[2], cs[3]>> = <<"2", "5">> -> <<"%">>
            [] OTHER -> <<"%", cs[2], cs[3]>>) \o Unquote(SubSeq(cs, 4, Len(cs)))
  ELSE <<Head(cs)>> \o Unquote(Tail(cs))

\* str.split(sep)
RECURSIVE Split(_, _)
Split(cs, sep) ==
  IF cs = <<>> THEN << <<>> >>
  ELSE LET rest == Split(Tail(cs), sep) IN
       IF Head(cs) = sep THEN << <<>> >> \o rest
       ELSE << <<Head(cs)>> \o Head(rest) >> \o Tail(rest)

\* "name=value" of a query string: the name and the raw value
Field(f) ==
  LET eq == {i \in 1..Len(f) : f[i] = "="} IN
  IF eq = {} THEN [name |-> f, raw |-> <<>>]
  ELSE LET i == CHOOSE j \in eq : \A k \in eq : j <= k IN
       [name |-> SubSeq(f, 1, i - 1), raw |-> SubSeq(f, i + 1, Len(f))]

\* The raw value of the first non-blank parameter called name, <<>> if none.
RawParam(query, name) ==
  LET fs == Split(query, "&")
      at == {i \in 1..Len(fs) : Field(fs[i]).name = <<name>> /\ Field(fs[i]).raw # <<>>}
  IN IF at = {} THEN <<>>
     ELSE Field(fs[CHOOSE i \in at : \A k \in at : i <= k]).raw

\* urllib.parse.parse_qs(parsed.query)[name][0]; blank values are left out,
\* so <<>> stands for "name not in params".
parse_qs(query, name) == Unquote(RawParam(query, name))

\* Flow.authorization_url(prompt="consent", state=session_id)
authorization_url(sid) ==
  <<"prompt", "=", "consent", "&", "state", "=">> \o Quote(Chars(sid))

\* The link a chat handler sends: Gmail appends the state when the URL has
\* none (gmail_chat_proto.py 528-533), Calendar sends the URL as it is.
AuthLink(ag, sid) ==
  LET url == authorization_url(sid) IN
  IF ag = "gmail" /\ RawParam(url, "state") = <<>>
    THEN url \o <<"&", "state", "=">> \o Chars(sid)
    ELSE url

\* The query of the redirect to http://localhost:8080/callback: the provider
\* hands the state of the link back, with the code or with an error.
Redirect(link, code, granted) ==
  (IF granted THEN <<"code", "=">> \o Quote(Chars(code))
              ELSE <<"error", "=", "access_denied">>)
    \o <<"&", "state", "=">> \o RawParam(link, "state")

\* OAuthCallbackHandler.do_GET: the user followed the link of session s; with a
\* code in the query the page is served and {session_id, auth_code} is posted
\* to the agent, else the answer is 400 with the error page.  Serve is what
\* do_GET reads from the query of the redirect.
Serve(ag, s, code, granted) ==
  LET query == Redirect(AuthLink(ag, s), code, granted) IN
  [hasCode |-> parse_qs(query, "code") # <<>>,
   session_id |-> Text(parse_qs(query, "state")),
   auth_code |-> Text(parse_qs(query, "code"))]

\* Serve for every link and every answer of the provider
Served ==
  [ag \in Agents |-> [s \in SessionIds |-> [code \in Codes |->
     [granted \in BOOLEAN |-> Serve(ag, s, code, granted)]]]]

do_GET(p, s, code, granted) ==
  LET post == Served[agent][s][code][granted]
      hasCode == post.hasCode
      seen == [state |-> s, code |-> IF granted THEN code ELSE "",
               status |-> IF hasCode THEN 200 ELSE 400]
  IN
  /\ CanStart(p)
  /\ IF hasCode
       THEN /\ post.session_id \in SessionIds
            /\ procs' = [procs EXCEPT ![p] = [Idle EXCEPT !.kind = "cb", !.pc = "post",
                                                          !.sid = post.session_id,
                                                          !.code = post.auth_code]]
            /\ running' = p
            /\ nEvents' = nEvents + 1
            /\ lastDone' = [NoDone EXCEPT !.kind = "get", !.sid = post.session_id,
                                           !.path = "forwarded", !.get = seen]
       ELSE /\ UNCHANGED <<procs, running, nEvents>>
            /\ lastDone' = [NoDone EXCEPT !.kind = "get", !.path = "error_page",
                                           !.get = seen]
  /\ UNCHANGED <<agent, storage, auth, files, profile>>
  /\ lastCall' = NoCall
  /\ UNCHANGED ghvars

\* ------------------- gmail_chat_agent._handle_oauth / calendar_chat_agent._cb
\* The callback without the check for a duplicate.
AlreadyAuthenticated_Never(d) == FALSE

\* "if session_data.get(...authenticated)": a duplicate callback is ignored
\* (gmail 94, calendar 58).
AlreadyAuthenticated(d) == d.authenticated

\* POST /oauth/callback {session_id, auth_code} has arrived: up to the first
\* complete_oauth (gmail 79-112, calendar 42-75).
_handle_oauth(p) ==
  LET s == procs[p].sid
      code == procs[p].code
      default == IF agent = "gmail" THEN Fresh ELSE [EmptyRec EXCEPT !.exists = TRUE]
      loaded == SessionsGet(storage, s, default)
      tp == SessionPath(s)
      r == [Idle EXCEPT !.kind = "cb", !.sid = s, !.sessions = storage,
                        !.code = code,
                        !.data = [loaded EXCEPT !.tokens_path = tp],
                        !.ctx = "own",
                        !.own = [tokens_path |-> tp, token_json |-> NoToken]]
  IN
  /\ running = p
  /\ procs[p].pc = "post"
  /\ IF AlreadyAuthenticated(loaded)
       THEN /\ procs' = [procs EXCEPT ![p] = Idle] /\ running' = 0
            /\ lastDone' = [NoDone EXCEPT !.kind = "cb", !.sid = s, !.path = "already",
                                           !.loaded = storage[s]]
            /\ UNCHANGED <<auth, files>>
       ELSE /\ BeginTool(p, r, auth, "complete_oauth", "cb_completed")
            /\ lastDone' = NoDone
  /\ UNCHANGED <<agent, storage, nEvents, profile>>
  /\ lastCall' = NoCall
  /\ UNCHANGED ghvars

\* "flow not initialised" in the error: setup_oauth, then complete_oauth again
\* (gmail 114-120, calendar 77-82).
CbCompleted(p) ==
  LET r == procs[p] IN
  /\ running = p
  /\ r.pc \in {"cb_completed", "cb_setup"}
  /\ IF r.pc = "cb_setup"
       THEN BeginTool(p, r, auth, "complete_oauth", "cb_final")
       ELSE IF FlowMissing(r.out)
         THEN BeginTool(p, r, auth, "setup_oauth", "cb_setup")
         ELSE /\ procs' = [procs EXCEPT ![p].pc = "cb_final"]
              /\ UNCHANGED <<auth, files, running>>
  /\ UNCHANGED <<agent, storage, nEvents, profile>>
  /\ lastDone' = NoDone
  /\ lastCall' = NoCall
  /\ UNCHANGED ghvars

\* The rest of the callback: the failure response, or the token file is read
\* into the session, the session is marked authenticated and stored, and the
\* user is notified (gmail 121-149, calendar 83-129).
CbFinal(p) ==
  LET r == procs[p]
      tp == SessionPath(r.sid)
      src == IF agent = "gmail" THEN tp ELSE TOKENS_PATH
      readable == files[src] # NoToken
      d == [r.data EXCEPT
              !.token_json = IF readable THEN files[src] ELSE @,
              !.tokens_path = IF readable /\ agent = "calendar" THEN TOKENS_PATH ELSE @,
              !.authenticated = TRUE, !.awaiting = FALSE, !.link_sent = FALSE]
  IN
  /\ running = p
  /\ r.pc = "cb_final"
  /\ IF ~r.out.success
       THEN /\ Finish(p, "cb_failed", r.sent)
            /\ UNCHANGED <<storage, files>>
       ELSE /\ files' = IF readable THEN [files EXCEPT ![tp] = NoToken] ELSE files
            /\ storage' = [r.sessions EXCEPT ![r.sid] = d]
            /\ Finish(p, "cb_ok", IF d.sender THEN <<"auth_ok">> ELSE <<>>)
  /\ UNCHANGED <<agent, auth, nEvents, profile>>
  /\ lastCall' = NoCall
  /\ UNCHANGED ghvars

\* ----------------------------------------------------------------- restart
\* The agent process is restarted between two handler invocations: the auth
\* object is built anew (no flow, no cached client); ctx.storage and the token
\* files are on disk and survive.
Restart ==
  /\ running = 0
  /\ \A p \in Slots : procs[p].kind = "idle"
  /\ nEvents < profile.events
  /\ nEvents' = nEvents + 1
  /\ auth' = AuthInit
  /\ UNCHANGED <<agent, storage, files, procs, running, profile>>
  /\ lastDone' = NoDone
  /\ lastCall' = NoCall
  /\ UNCHANGED ghvars

Next ==
  \/ \E p \in Slots, s \in SessionIds, text \in Texts \cup {NoText}, start \in BOOLEAN :
       /\ start => text \in {NoText, "help"}
       /\ handle_chat_message(p, s, text, start)
  \/ \E p \in Slots, s \in SessionIds, text \in Texts \cup {NoText}, start \in BOOLEAN :
       /\ start => text \in {NoText, "help"}
       /\ _handle(p, s, text, start)
  \/ \E p \in Slots, s \in SessionIds, code \in Codes, granted \in BOOLEAN :
       do_GET(p, s, code, granted)
  \/ \E p \in Slots : _handle_oauth(p)
  \/ \E p \in Slots : ValidateAuth(p)
  \/ \E p \in Slots : AfterStatus(p)
  \/ \E p \in Slots : GmailAuthFlow(p)
  \/ \E p \in Slots : GmailCompleted(p)
  \/ \E p \in Slots : CalAuthFlow(p)
  \/ \E p \in Slots : AfterSetup(p)
  \/ \E p \in Slots : AfterSend(p)
  \/ \E p \in Slots : OpenAIEvent(p)
  \/ \E p \in Slots : ToolOutput(p)
  \/ \E p \in Slots : CbCompleted(p)
  \/ \E p \in Slots : CbFinal(p)
  \/ \E p \in Slots : ToolAttempt(p)
  \/ \E p \in Slots : ToolRetry(p)
  \/ Restart

Spec == Init /\ [][Next]_vars

\* The sessions have been authorized through the callback, s1 first and s2
\* after it, and handlers now overlap.  The Gmail callback keeps the token in
\* the record and removes the file of the session; the Calendar callback
\* leaves the token in the canonical file, which the later exchange overwrote;
\* that file may since have been lost (the session store is kept elsewhere),
\* the case for which _run_cal_tool writes it again from the record.
Authorized(ag, s) ==
  [Fresh EXCEPT !.sender = TRUE, !.authenticated = TRUE, !.token_json = s,
                !.tokens_path = IF ag = "gmail" THEN SessionPath(s) ELSE TOKENS_PATH]

InitAuthorized ==
  /\ agent \in Agents
  /\ storage = [s \in SessionIds |-> Authorized(agent, s)]
  /\ auth = [tokens_path |-> Authorized(agent, "s2").tokens_path,
             flow |-> "s2", service |-> NoToken]
  /\ \E kept \in BOOLEAN :
       files = [p \in Paths |->
                 IF agent = "calendar" /\ p = TOKENS_PATH /\ kept THEN "s2" ELSE NoToken]
  /\ procs = [p \in Slots |-> Idle]
  /\ running = 0
  /\ nEvents = 0
  /\ profile \in {pr \in Profiles : pr.slots = Slots}
  /\ lastDone = NoDone
  /\ lastCall = NoCall
  /\ GhInit

SpecAuthorized == InitAuthorized /\ [][Next]_vars

\* -------------------------------------------- Github MCP Agent/agent.py
chatvars == <<agent, storage, auth, files, procs, running, nEvents, profile,
              lastDone, lastCall>>

\* time.time() - last_activity > SESSION_TIMEOUT
Expired(session, t) == t - session.last_activity > SESSION_TIMEOUT

\* is_user_authenticated(session_id) at time t: the verdict and the
\* dictionary it leaves (the expired record deleted, or last_activity set).
is_user_authenticated(us, s, t) ==
  IF ~us[s].exists THEN [ok |-> FALSE, us |-> us]
  ELSE IF us[s].access_token = NoToken THEN [ok |-> FALSE, us |-> us]
  ELSE IF Expired(us[s], t)
    THEN [ok |-> FALSE, us |-> [us EXCEPT ![s] = NoSession]]
  ELSE [ok |-> TRUE, us |-> [us EXCEPT ![s].last_activity = t]]

\* get_authenticated_client(ctx, session_id): the token the returned client
\* works with (NoToken for None), and the two dictionaries afterwards.
get_authenticated_client(us, sc, s, t) ==
  IF sc[s] # NoToken THEN [client |-> sc[s], us |-> us, sc |-> sc]
  ELSE LET chk == is_user_authenticated(us, s, t) IN
    IF ~chk.ok THEN [client |-> NoToken, us |-> chk.us, sc |-> sc]
    ELSE [client |-> chk.us[s].access_token, us |-> chk.us,
          sc |-> [sc EXCEPT ![s] = chk.us[s].access_token]]

\* GitHubDeviceFlowHandler.start_device_flow, status 200
start_device_flow(us, s) ==
  [us EXCEPT ![s] = [@ EXCEPT !.exists = TRUE, !.device_code = TRUE]]

\* The token-paste branch of handle_chat_message: verdict is what the two
\* GitHub API requests give.
PasteToken(us, s, text, verdict, t) ==
  CASE verdict = "invalid" -> [reply |-> "invalid_token", us |-> us]
    [] verdict = "no_repo_scope" -> [reply |-> "missing_permissions", us |-> us]
    [] OTHER ->
         [reply |-> "authenticated",
          us |-> [us EXCEPT ![s] = [@ EXCEPT !.exists = TRUE,
                                              !.access_token = text,
                                              !.last_activity = t]]]

\* handle_chat_message with one TextContent item.  verdict: the outcome of
\* the token validation; started: the device flow request succeeded.
GitHubChat(s, text, verdict, started) ==
  LET chk == is_user_authenticated(user_sessions, s, now)
      was == user_sessions[s]
      expired == was.exists /\ was.access_token # NoToken /\ Expired(was, now)
      pasted == PasteToken(chk.us, s, text, verdict, now)
      got == get_authenticated_client(chk.us, session_clients, s, now)
      base == [NoMsg EXCEPT !.kind = "text", !.sid = s, !.text = text,
                            !.expired = expired, !.authenticated = chk.ok]
  IN
  /\ lapsed' = IF expired THEN [lapsed EXCEPT ![s] = was.access_token] ELSE lapsed
  /\ IF ~chk.ok /\ text \in PastedTokens
       THEN /\ user_sessions' = pasted.us
            /\ lastMsg' = [base EXCEPT !.reply = pasted.reply]
            /\ UNCHANGED <<session_clients, polling>>
     ELSE IF ~chk.ok
       THEN IF started
              THEN /\ user_sessions' = start_device_flow(chk.us, s)
                   /\ polling' = [polling EXCEPT ![s] = TRUE]
                   /\ lastMsg' = [base EXCEPT !.reply = "authentication_required"]
                   /\ UNCHANGED session_clients
              ELSE /\ user_sessions' = chk.us
                   /\ lastMsg' = [base EXCEPT !.reply = "failed_to_start"]
                   /\ UNCHANGED <<session_clients, polling>>
     ELSE /\ user_sessions' = got.us
          /\ session_clients' = got.sc
          /\ lastMsg' = [base EXCEPT
               !.reply = IF got.client # NoToken THEN "answer" ELSE "unable_to_connect",
               !.used = got.client,
               !.stored = got.us[s].access_token]
          /\ UNCHANGED polling
  /\ UNCHANGED <<now, chatvars>>

\* handle_chat_message with an EndSessionContent item
GitHubEndSession(s) ==
  /\ user_sessions[s].exists \/ session_clients[s] # NoToken
  /\ session_clients' = [session_clients EXCEPT ![s] = NoToken]
  /\ user_sessions' = [user_sessions EXCEPT ![s] = NoSession]
  /\ lapsed' = [lapsed EXCEPT ![s] = NoToken]
  /\ lastMsg' = [NoMsg EXCEPT !.kind = "end", !.sid = s]
  /\ UNCHANGED <<polling, now, chatvars>>

\* handle_device_flow_polling: the user approved the device code (granted),
\* or the device flow ran out.
handle_device_flow_polling(s, granted) ==
  /\ polling[s]
  /\ granted => user_sessions[s].exists /\ user_sessions[s].device_code
  /\ polling' = [polling EXCEPT ![s] = FALSE]
  /\ user_sessions' =
       IF granted
         THEN [user_sessions EXCEPT ![s] = [@ EXCEPT !.access_token = DeviceToken,
                                                     !.last_activity = now]]
         ELSE user_sessions
  /\ lastMsg' = NoMsg
  /\ UNCHANGED <<session_clients, now, lapsed, chatvars>>

\* Ten minutes pass.
Tick ==
  /\ now < MaxNow
  /\ now' = now + 1
  /\ lastMsg' = NoMsg
  /\ UNCHANGED <<user_sessions, session_clients, polling, lapsed, chatvars>>

InitGitHub == Init /\ agent = "gmail" /\ profile.slots = {1}

NextGitHub ==
  \/ \E s \in SessionIds, text \in GhTexts,
        verdict \in {"ok", "invalid", "no_repo_scope"}, started \in BOOLEAN :
       GitHubChat(s, text, verdict, started)
  \/ \E s \in SessionIds : GitHubEndSession(s)
  \/ \E s \in SessionIds, granted \in BOOLEAN : handle_device_flow_polling(s, granted)
  \/ Tick

SpecGitHub == InitGitHub /\ [][NextGitHub]_vars

\* =================================================================== claims
\* The handler in r is on the OpenAI / tool-execution path.
InOpenAIPath(r) ==
  \/ r.pc \in {"openai", "tool_output"}
  \/ r.pc \in {"call1", "call2", "sleep"} /\ r.k = "tool_output"

\* C1: no handler is on the OpenAI / tool-execution path, and no tool call
\* that needs credentials is dispatched, unless the authenticated flag of the
\* session record the handler works on is true (and, when the handlers run one
\* after the other, the flag of the stored record as well); a chat message of
\* a session whose record is not authenticated is never answered through that
\* path.
C1_NoToolCallUnauthenticated ==
  /\ \A p \in Slots : InOpenAIPath(procs[p]) => procs[p].data.authenticated
  /\ (lastCall.via = "tool_output" \/ lastCall.fn \in CredentialTools)
       => lastCall.flagged
  /\ (profile.slots = {1} /\ lastCall.fn \in CredentialTools)
       => storage[lastCall.sid].authenticated
  /\ (lastDone.kind = "chat" /\ ~lastDone.loaded.authenticated)
       => lastDone.path \notin {"answer", "crash"} /\ lastDone.sent \in {<<>>, <<"link">>, <<"reminder">>, <<"setup_failed">>, <<"auth_ok">>, <<"auth_failed">>}

\* C1 witness: a session that never authenticated sends a text and gets the
\* authorization link.
C1_Witness ==
  /\ lastDone.kind = "chat"
  /\ ~lastDone.loaded.exists
  /\ lastDone.sent = <<"link">>

\* C2: every tool call that needs credentials and is made on behalf of a
\* session executes with the token material of that session's own exchange.
C2_TokenOwnedBySession ==
  (lastCall.fn \in CredentialTools /\ ~lastCall.raised /\ lastCall.result.success)
    => Owner(lastCall.result.token) = lastCall.sid

\* C3: a step of a handler for one session leaves the stored record of every
\* other session as it is.
C3_SessionIsolation ==
  [][\A b \in SessionIds : storage'[b] # storage[b] => lastDone'.sid = b]_vars

\* C4: when every session has begun an authorization and none has completed
\* it, the exchange for a session uses the flow created for that session.
C4_FlowPerSession ==
  (/\ lastCall.fn = "complete_oauth"
   /\ ~lastCall.raised
   /\ \A s \in SessionIds : storage[s].awaiting /\ ~storage[s].authenticated)
    => lastCall.flow = lastCall.sid

\* C5: a callback for a session that is stored as authenticated answers
\* "Already authenticated" and changes neither the session store, nor the
\* token files, nor the auth object (no exchange takes place).
C5_DuplicateCallbackIdempotent ==
  [][(lastDone'.kind = "cb" /\ lastDone'.loaded.authenticated)
       => /\ lastDone'.path = "already"
          /\ storage' = storage
          /\ files' = files
          /\ auth' = auth]_vars

\* C5 witness: the duplicate callback has been answered.
C5_Witness ==
  /\ lastDone.kind = "cb"
  /\ lastDone.path = "already"
  /\ storage[lastDone.sid].token_json = lastDone.sid

\* The last step finished a chat handler that got user text for a session
\* whose loaded record was in the given state.
ChatDone(authenticated, awaiting) ==
  /\ lastDone.kind = "chat"
  /\ lastDone.inbound # NoText
  /\ lastDone.loaded.authenticated = authenticated
  /\ lastDone.loaded.awaiting = awaiting

\* C6: a chat message with text for a session that is neither authenticated
\* nor awaiting a code calls setup_oauth and, unless that call fails, leaves
\* the session stored as awaiting a code and answers with the link.
C6_BeginAuthorization ==
  ChatDone(FALSE, FALSE)
    => /\ lastDone.fn = "setup_oauth"
       /\ lastDone.path \in {"link", "setup_failed"}
       /\ lastDone.path = "link"
            => storage[lastDone.sid].awaiting /\ lastDone.sent = <<"link">>

\* A Gmail chat message that looks like an authorization code, for a session
\* that awaits one.
GmailCodeDone ==
  agent = "gmail" /\ ChatDone(FALSE, TRUE) /\ StartsWith4(lastDone.inbound)

SessionUnchanged ==
  LET new == storage[lastDone.sid]
      old == lastDone.loaded
  IN /\ new.authenticated = old.authenticated
     /\ new.awaiting = old.awaiting
     /\ new.link_sent = old.link_sent
     /\ new.token_json = old.token_json
     /\ new.tokens_path = old.tokens_path
     /\ new.messages = old.messages

\* C8 as stated: text that is no code, for a session that awaits one, is
\* answered with the reminder, no tool is called and the session is unchanged.
C8_Original ==
  (ChatDone(FALSE, TRUE) /\ ~StartsWith4(lastDone.inbound))
    => /\ lastDone.path = "reminder"
       /\ lastDone.sent = <<"reminder">>
       /\ lastDone.fn = ""
       /\ SessionUnchanged

\* C8 amended: the same, for the Calendar agent always and for the Gmail agent
\* while the flow object exists; a Gmail session whose flow object is gone has
\* its awaiting and link-sent flags cleared and setup_oauth called anew.
C8_ReminderNoChange ==
  (ChatDone(FALSE, TRUE) /\ ~StartsWith4(lastDone.inbound))
    => IF lastDone.stale
         THEN agent = "gmail" /\ lastDone.fn = "setup_oauth"
              /\ lastDone.path \in {"link", "setup_failed"}
         ELSE /\ lastDone.path = "reminder"
              /\ lastDone.sent = <<"reminder">>
              /\ lastDone.fn = ""
              /\ SessionUnchanged

\* C8 witness: the reminder has been sent to a session that has a link.
C8_Witness ==
  /\ ChatDone(FALSE, TRUE)
  /\ lastDone.inbound = "help"
  /\ lastDone.path = "reminder"
  /\ storage[lastDone.sid].link_sent

\* C9: a chat message with text for an authenticated session that has a
\* history and passes the status check ends with the user text and the
\* assistant's answer as the last two entries of the stored history and with
\* that answer as the one reply.
C9_ForwardAndReply ==
  (/\ ChatDone(TRUE, FALSE)
   /\ lastDone.loaded.hasmsgs
   /\ lastDone.path \in {"answer", "crash"})
    => LET h == storage[lastDone.sid].messages IN
       /\ lastDone.path = "answer"
       /\ Len(h) >= 2
       /\ h[Len(h) - 1] = [source |-> "human", content |-> lastDone.inbound]
       /\ h[Len(h)].source = "assistant"
       /\ lastDone.sent = <<h[Len(h)].content>>

\* C10: a call that raised on the first pass is tried again after the sleep,
\* and when the second pass does not raise the wrapper returns the unwrapped
\* result of that pass, not the failure payload.
C10_RetryReturnsSuccess ==
  /\ (lastCall.raised /\ lastCall.attempt = 1)
       => procs[lastCall.slot].pc = "sleep"
  /\ (~lastCall.raised /\ lastCall.attempt = 2)
       => /\ procs[lastCall.slot].pc = lastCall.via
          /\ procs[lastCall.slot].out = lastCall.result
          /\ \A msg \in ExcMessages : procs[lastCall.slot].out # FailurePayload(msg)

\* C10 witness: the second pass of a call has succeeded.
C10_Witness ==
  /\ lastCall.attempt = 2
  /\ ~lastCall.raised
  /\ lastCall.result.success
  /\ procs[lastCall.slot].out = lastCall.result

\* The wrapper has returned to the handler with the outcome of the last call.
Returned == procs[lastCall.slot].pc = lastCall.via

\* C11: when both passes of a call raise, the wrapper returns (it does not
\* raise) a payload with success false and a non-empty error string.
C11_DoubleFailurePayload ==
  (lastCall.raised /\ lastCall.tries = 2)
    => /\ Returned
       /\ ~procs[lastCall.slot].out.success
       /\ procs[lastCall.slot].out.err # ""

\* C12: one invocation of the wrapper makes one call when the first does not
\* raise and two when it does, never a third; a second call is made only
\* after the first has raised.
C12_SingleRetry ==
  lastCall.fn # ""
    => /\ lastCall.tries \in {1, 2}
       /\ lastCall.tries = 2 => lastCall.fails = (IF lastCall.raised THEN 2 ELSE 1)
       /\ (lastCall.tries = 1 /\ ~lastCall.raised) => Returned /\ lastCall.fails = 0
       /\ (lastCall.tries = 1 /\ lastCall.raised)
            => procs[lastCall.slot].pc = "sleep" /\ procs[lastCall.slot].tries = 1
       /\ lastCall.tries = 2 => Returned

\* C12 witness: a second call has been made after the first raised.
C12_Witness ==
  /\ lastCall.tries = 2
  /\ lastCall.fails >= 1
  /\ Returned

\* C13: a chat handler that got user text has, when it finishes, sent a reply
\* to the sender, and it does not end with an exception.
C13_AlwaysReply ==
  (lastDone.kind = "chat" /\ lastDone.inbound # NoText)
    => Len(lastDone.sent) >= 1 /\ lastDone.path # "crash"

\* The last step finished a handler whose code exchange failed.
ExchangeFailed == lastDone.path \in {"cb_failed", "code_failed"}

Fns(trail) == [i \in 1..Len(trail) |-> trail[i].fn]

\* C15: complete_oauth called while the flow object is absent does not raise
\* but returns the failure payload whose error names the missing flow; the
\* REST callback that gets it calls setup_oauth once and complete_oauth once
\* more, and no callback does so otherwise; a Gmail chat handler that finds the
\* session awaiting a code while the flow is absent clears the awaiting state
\* and calls setup_oauth, and only that.
C15_FlowNotInitialised ==
  /\ (lastCall.fn = "complete_oauth" /\ ~lastCall.raised /\ lastCall.flow = "") =>
       /\ Returned
       /\ lastCall.result = Payload(FALSE, FALSE, "flow not initialised", "", NoToken)
       /\ procs[lastCall.slot].out = lastCall.result
  /\ (lastCall.fn = "complete_oauth" /\ ~lastCall.raised /\ lastCall.flow # "") =>
       ~FlowMissing(lastCall.result)
  /\ (lastDone.kind = "cb" /\ lastDone.path # "already") =>
       /\ Len(lastDone.trail) >= 1
       /\ Fns(lastDone.trail) =
            IF lastDone.trail[1].noflow
              THEN <<"complete_oauth", "setup_oauth", "complete_oauth">>
              ELSE <<"complete_oauth">>
  /\ (lastDone.kind = "chat" /\ lastDone.stale) =>
       /\ agent = "gmail"
       /\ lastDone.loaded.awaiting
       /\ Fns(lastDone.trail) = <<"setup_oauth">>
       /\ lastDone.path \in {"link", "setup_failed"}
       /\ lastDone.path = "link" => lastDone.sent = <<"link">>

\* A callback that met the missing flow, set it up and exchanged the code.
C15_Witness ==
  /\ lastDone.kind = "cb" /\ lastDone.path = "cb_ok"
  /\ Len(lastDone.trail) = 3 /\ lastDone.trail[1].noflow

\* A Gmail chat handler that reset the stale awaiting state and sent a link.
C15_WitnessChat == lastDone.kind = "chat" /\ lastDone.stale /\ lastDone.path = "link"

\* The token material the next tool call of a session with record d starts
\* from: the token file of the session if it exists, else the stored token_json.
StartToken(d, f) ==
  IF d.tokens_path # NoPath /\ f[d.tokens_path] # NoToken
    THEN f[d.tokens_path] ELSE d.token_json

\* C16: when a tool call finds the access token expired and refreshes it, the
\* call is made with the refreshed token and the refreshed token is in the
\* token material of the session (its token file or its token_json), so that
\* the next tool call of the session starts from it.
C16_RefreshPersisted ==
  lastCall.refreshed =>
    /\ Returned
    /\ auth.service = Refreshed(auth.service)
    /\ StartToken(procs[lastCall.slot].data, files) = auth.service

\* The token file of the session the handler r works for: the file the tool
\* wrapper resolved for the call, else the one named in the session record.
SessionFile(r) == IF r.tpath # NoPath THEN r.tpath ELSE r.data.tokens_path
HasSessionFile(r, f) == SessionFile(r) # NoPath /\ f[SessionFile(r)] # NoToken

\* The call of the last step got a client from get_service / service.
GotService ==
  /\ ~lastCall.raised
  /\ \/ lastCall.fn \in CredentialTools /\ lastCall.result.success
     \/ agent = "gmail" /\ lastCall.fn = "check_auth_status"
          /\ lastCall.result.authenticated

C18_StaysAuthenticated ==
  [][\A s \in SessionIds :
       (storage[s].authenticated /\ ~storage'[s].authenticated)
         => /\ lastDone'.kind = "chat"
            /\ lastDone'.sid = s
            /\ lastDone'.loaded.authenticated]_vars

\* C19: the session id bound as state in the authorization link is the
\* session_id the OAuth callback server posts to the agent, together with the
\* code of the redirect; a GET without a code is answered 400 with the error
\* page and nothing is posted.
C19_StateRoundTrip ==
  [][lastDone'.kind = "get" =>
       IF lastDone'.get.code # ""
         THEN /\ lastDone'.get.status = 200
              /\ \E p \in Slots :
                   /\ procs[p].kind = "idle"
                   /\ procs'[p].pc = "post"
                   /\ procs'[p].sid = lastDone'.get.state
                   /\ procs'[p].code = lastDone'.get.code
         ELSE /\ lastDone'.get.status = 400
              /\ lastDone'.path = "error_page"
              /\ UNCHANGED <<storage, auth, files, procs, running>>]_vars

\* The callback server has posted the code for the session of the link.
C19_Witness ==
  /\ lastDone.kind = "get" /\ lastDone.path = "forwarded"
  /\ \E p \in Slots : procs[p].pc = "post" /\ procs[p].sid = lastDone.get.state
                         /\ procs[p].code = "4/good"

\* The callback server has answered a redirect without code.
C19_WitnessError == lastDone.kind = "get" /\ lastDone.get.status = 400

\* A handler that called reset_oauth_tokens has answered.
ResetDone ==
  /\ lastDone.kind = "chat"
  /\ lastDone.path = "answer"
  /\ \E i \in 1..Len(lastDone.trail) : lastDone.trail[i].fn = "reset_oauth_tokens"

\* C20: after a chat handler of an authenticated session has called
\* reset_oauth_tokens, the session has no token material left (neither a token
\* file nor a stored token_json) and is not stored as authenticated, so its
\* next message starts the authorization again.
C20_ResetDeletesToken ==
  (ResetDone /\ profile.slots = {1}) =>
    /\ StartToken(storage[lastDone.sid], files) = NoToken
    /\ storage[lastDone.sid].token_json = NoToken

\* C21: in every state of the session store, a session record whose
\* authenticated flag is set holds its token material (token_json).
C21_AuthenticatedHasToken ==
  \A s \in SessionIds :
    storage[s].authenticated => storage[s].token_json # NoToken

\* C22: GitHub MCP agent.  A session whose last activity is more than
\* SESSION_TIMEOUT in the past is treated as expired on its next message: that
\* message is not answered as a query but with the authentication dialogue,
\* the record is gone, and no later query is processed with the token the
\* expired record held unless that token has been stored again.  A message of
\* an authenticated session that has not expired sets last_activity to now.
C22_ExpiredOnNextMessage ==
  lastMsg.kind = "text" =>
    /\ lastMsg.expired =>
         /\ ~lastMsg.authenticated
         /\ lastMsg.reply \in {"authentication_required", "failed_to_start",
                                "authenticated", "invalid_token", "missing_permissions"}
    /\ lastMsg.authenticated =>
         user_sessions[lastMsg.sid].last_activity = now
    /\ lastMsg.reply = "answer" /\ lastMsg.used = lapsed[lastMsg.sid] =>
         lastMsg.stored = lastMsg.used

\* C23: Gmail chat handler.  A failed code exchange leaves the session not
\* authenticated, not awaiting a code and with the link-sent flag of the
\* failed flow.  The next chat text of such a session starts a new
\* authorization: setup_oauth is called and, unless that call fails, the
\* session awaits a code again and the text is answered with a fresh link.
C23_NewFlowAfterFailedExchange ==
  (agent = "gmail" /\ ChatDone(FALSE, FALSE) /\ lastDone.loaded.link_sent)
    => /\ lastDone.fn = "setup_oauth"
       /\ lastDone.path \in {"link", "setup_failed"}
       /\ lastDone.path = "link"
            => storage[lastDone.sid].awaiting /\ lastDone.sent = <<"link">>

\* C24: a message with a StartSessionContent block, with or without text,
\* stores the session with an empty history and no authentication,
\* pending-authorization or token fields; the handler ends there: no tool
\* call, no link or other reply, and the shared auth object and the token
\* files are as before.
C24_StartSessionResets ==
  [][lastDone'.start =>
       LET new == storage'[lastDone'.sid] IN
       /\ lastDone'.kind = "chat" /\ lastDone'.path = "noop"
       /\ new.exists /\ new.hasmsgs /\ new.messages = <<>>
       /\ ~new.authenticated /\ ~new.awaiting /\ ~new.link_sent
       /\ new.tokens_path = NoPath /\ new.token_json = NoToken
       /\ lastDone'.sent = <<>> /\ lastDone'.trail = <<>> /\ lastDone'.fn = ""
       /\ lastCall' = NoCall
       /\ UNCHANGED <<auth, files, procs>>]_vars

\* C24 witness: a start message that carried text has reset a session that
\* was authenticated and had a history.
C24_Witness ==
  /\ lastDone.start /\ lastDone.text = "help"
  /\ lastDone.loaded.authenticated
  /\ lastDone.loaded.messages # <<>>
  /\ storage[lastDone.sid] = Fresh

\* C24 witness: a start message has reset a session that awaited a code.
C24_WitnessAwaiting ==
  /\ lastDone.start
  /\ lastDone.loaded.awaiting /\ lastDone.loaded.link_sent
  /\ ~storage[lastDone.sid].awaiting

\* C25: Calendar chat agent.  A chat message whose text is an authorization
\* code, for a session that awaits one, calls complete_oauth, and when the
\* exchange succeeds the session is stored as authenticated.
C25_CalendarCodeFromChat ==
  (agent = "calendar" /\ ChatDone(FALSE, TRUE) /\ StartsWith4(lastDone.inbound))
    => /\ "complete_oauth" \in {lastDone.trail[i].fn : i \in 1..Len(lastDone.trail)}
       /\ lastDone.path \in {"code_ok", "code_failed"}
       /\ lastDone.path = "code_ok" => storage[lastDone.sid].authenticated

\* The step returns from the tool wrapper to the handler in slot p, and the
\* wrapper had written a token file from the in-memory token JSON for the call.
TempCallReturns(p) ==
  /\ procs[p].pc \in {"call1", "call2"}
  /\ procs[p].temp
  /\ procs'[p].pc = procs[p].k

\* C26: when a call of the tool wrapper that wrote a token file from the
\* session's in-memory token JSON returns, with the result or with the failure
\* payload after the second pass raised, no file exists at the path it wrote,
\* also when calls of several handlers interleave.
C26_TempFileRemoved ==
  [][\A p \in Slots :
       TempCallReturns(p) => files'[procs[p].tpath] = NoToken]_vars

\* C26 witness: a call that wrote a token file has returned after its first
\* pass raised; while it slept the handler in the other slot made a call that
\* wrote a token file too and is still under way; the file is gone.
C26_Witness ==
  /\ lastCall.fn # "" /\ Returned /\ lastCall.tries = 2
  /\ procs[lastCall.slot].temp
  /\ files[procs[lastCall.slot].tpath] = NoToken
  /\ \E q \in Slots \ {lastCall.slot} :
       /\ procs[q].kind = "chat" /\ procs[q].temp
       /\ Len(procs[q].trail) >= 1

\* C26 witness: the second pass raised as well and the file is gone.
C26_WitnessFailure ==
  /\ lastCall.fn # "" /\ Returned /\ lastCall.raised /\ lastCall.tries = 2
  /\ procs[lastCall.slot].temp
  /\ files[procs[lastCall.slot].tpath] = NoToken

\* C26 witness: the Calendar wrapper has written the token file again from
\* the record, the call has returned and the file is gone.
C26_WitnessCalendar ==
  /\ agent = "calendar"
  /\ lastCall.fn # "" /\ Returned
  /\ procs[lastCall.slot].temp
  /\ files[procs[lastCall.slot].tpath] = NoToken

\* C27: the stored message history of every session holds at most
\* 2 * MAX_HISTORY entries.
C27_HistoryBound ==
  \A s \in SessionIds : Len(storage[s].messages) <= 2 * MAX_HISTORY

\* C28: at most one token exchange per authorization of a session, also when
\* the code reaches the callback endpoint twice and the two handlers
\* interleave: a callback handler never calls complete_oauth for a session
\* that a callback has already stored as authenticated.
C28_SingleExchange ==
  (/\ lastCall.fn = "complete_oauth"
   /\ procs[lastCall.slot].kind = "cb")
    => ~storage[lastCall.sid].authenticated

\* C29: once a session is stored as authenticated, a chat handler of that
\* session which loaded the record while it was not authenticated never stores
\* it as unauthenticated.
C29_NoStaleUnauthenticated ==
  [][\A s \in SessionIds :
       (/\ storage[s].authenticated
        /\ lastDone'.kind = "chat" /\ lastDone'.sid = s
        /\ ~lastDone'.loaded.authenticated)
         => storage'[s].authenticated]_vars

\* C30: a callback stores a session as authenticated only if the session was
\* in the session store and awaited a code when the callback loaded it.
C30_AuthenticatedOnlyFromAwaiting ==
  (lastDone.kind = "cb" /\ lastDone.path = "cb_ok"
     /\ storage[lastDone.sid].authenticated)
    => lastDone.loaded.exists /\ lastDone.loaded.awaiting
====
